---- MODULE Spec2Model ----
(***************************************************************************)
(* Model of osgeo_manager: the scoped source handle (open_source), the     *)
(* layer catalog of a source (get_source_layers, source_layer_exists),     *)
(* the schema comparison (compare_schema), the single-layer copy           *)
(* (layer_to_postgis) and the portal backup (backup_portal with            *)
(* postgis_as_gpkg).                                                       *)
(*                                                                         *)
(* Three specifications share the variables:                               *)
(*   SpecCompare  a call of compare_schema on two layers                   *)
(*   SpecManager  an OSGEOManager object and the calls made on it          *)
(*   Spec         one run of backup_portal                                 *)
(***************************************************************************)
EXTENDS Integers, Sequences, FiniteSets, TLC

\* ---------------------------------------------------------------- bounds
\* longest layer list of a source
MaxLayers == 3
\* longest list of catalog-registered layers
MaxCatalog == 3
\* longest full schema of a layer
MaxFields == 2

\* ------------------------------------------------------------ generalities
Range(s) == {s[i] : i \in 1..Len(s)}

\* sequences over S without repetition, of length at most n
DistinctSeqs(S, n) ==
    UNION {{s \in [1..k -> S] : \A i, j \in 1..k : i # j => s[i] # s[j]} : k \in 0..n}

\* ------------------------------------------------------------ field names
\* A field name is a Python str, modelled as its sequence of code points so
\* that str.lower() and the ordering of str are computed, not assumed.
STR_ID   == <<73, 68>>
STR_id   == <<105, 100>>
STR_name == <<110, 97, 109, 101>>

FieldNames == {STR_ID, STR_id, STR_name}
\* (type, width) of a field
FieldKinds == {<<"int", 10>>, <<"string", 50>>}

\* str.lower(): the upper-case ASCII letters are shifted to lower case
lower(s) == [i \in 1..Len(s) |-> IF s[i] \in 65..90 THEN s[i] + 32 ELSE s[i]]

\* a < b on Python str: lexicographic on code points, a proper prefix first
RECURSIVE StrLess(_, _)
StrLess(a, b) ==
    IF b = <<>> THEN FALSE
    ELSE IF a = <<>> THEN TRUE
    ELSE IF a[1] # b[1] THEN a[1] < b[1]
    ELSE StrLess(Tail(a), Tail(b))

\* list.sort(key=lambda field: field[0]): Python's sort is stable, so a field
\* goes after every field already placed whose name is not greater.
RECURSIVE InsertByName(_, _)
InsertByName(sorted, field) ==
    IF sorted = <<>> THEN <<field>>
    ELSE IF StrLess(field[1], sorted[1][1]) THEN <<field>> \o sorted
    ELSE <<sorted[1]>> \o InsertByName(Tail(sorted), field)

RECURSIVE SortInto(_, _)
SortInto(sorted, rest) ==
    IF rest = <<>> THEN sorted
    ELSE SortInto(InsertByName(sorted, rest[1]), Tail(rest))

sort_by_name(schema) == SortInto(<<>>, schema)

\* [(field[0].lower(), field[1], field[2]) for field in schema]
lower_names(schema) ==
    [i \in 1..Len(schema) |-> <<lower(schema[i][1]), schema[i][2], schema[i][3]>>]

\* [field for field in a if field not in b]
fields_not_in(a, b) == SelectSeq(a, LAMBDA field : field \notin Range(b))

\* compare_schema with `compatible` decided by the additions alone
compare_schema_by_additions(layer1, layer2, ignore_case) ==
    LET schema1 == sort_by_name(IF ignore_case THEN lower_names(layer1) ELSE layer1)
        schema2 == sort_by_name(IF ignore_case THEN lower_names(layer2) ELSE layer2)
    IN  [compatible     |-> fields_not_in(schema1, schema2) = <<>>,
         deleted_fields |-> sort_by_name(fields_not_in(schema2, schema1)),
         new_fields     |-> sort_by_name(fields_not_in(schema1, schema2))]

\* compare_schema with the names left as they are whatever ignore_case says
compare_schema_case_kept(layer1, layer2, ignore_case) ==
    LET schema1 == sort_by_name(layer1)
        schema2 == sort_by_name(layer2)
    IN  [compatible     |-> schema1 = schema2,
         deleted_fields |-> sort_by_name(fields_not_in(schema2, schema1)),
         new_fields     |-> sort_by_name(fields_not_in(schema1, schema2))]

\* compare_schema(layer1, layer2, ignore_case): a layer is given by its full
\* schema, the list of (name, type, width) get_full_schema() returns.
compare_schema(layer1, layer2, ignore_case) ==
    LET schema1 == sort_by_name(IF ignore_case THEN lower_names(layer1) ELSE layer1)
        schema2 == sort_by_name(IF ignore_case THEN lower_names(layer2) ELSE layer2)
    IN  [compatible     |-> schema1 = schema2,
         deleted_fields |-> sort_by_name(fields_not_in(schema2, schema1)),
         new_fields     |-> sort_by_name(fields_not_in(schema1, schema2))]

\* The full schemas a layer can have: the column names of one table are
\* pairwise different (PostgreSQL tells "ID" from "id").
Fields == {<<n, k[1], k[2]>> : n \in FieldNames, k \in FieldKinds}

FullSchemas ==
    {s \in DistinctSeqs(Fields, MaxFields) :
        \A i, j \in 1..Len(s) : i # j => s[i][1] # s[j][1]}

\* ------------------------------------------------------------ layers
\* the reserved name of the style table (imported from .constants)
STYLES_TABLE == "layer_styles"

\* A native layer of a source is given by its name; a source is the list of
\* its layers in the order the driver iterates them.
LayerNames == {"roads", "parcels", "lakes", STYLES_TABLE}
Sources == DistinctSeqs(LayerNames, MaxLayers)

\* GpkgLayer(layer, source): the wrapper keeps the native layer and its name
GpkgLayer(layer) == [gpkg_layer |-> layer, name |-> layer]

\* source.GetLayerByName(layername) finds a layer
GetLayerByName(source, layername) == layername \in Range(source)

\* source_layer_exists(source, layername)
source_layer_exists(source, layername) ==
    IF GetLayerByName(source, layername) THEN TRUE ELSE FALSE

\* get_source_layers without the test on the name
get_source_layers_unfiltered(source) ==
    [i \in 1..Len(source) |-> GpkgLayer(source[i])]

\* get_source_layers(source)
get_source_layers(source) ==
    LET kept == SelectSeq(source, LAMBDA layer : layer # STYLES_TABLE)
    IN  [i \in 1..Len(kept) |-> GpkgLayer(kept[i])]

\* tuple(layer.name for layer in self.get_layers())
get_layernames(source) ==
    LET layers == get_source_layers(source)
    IN  [i \in 1..Len(layers) |-> layers[i].name]

\* layer.get_schema() + layer.geometry_fields_schema() of a wrapped layer
layer_schema(layer) == <<<<STR_id, "int", 10>>, <<STR_name, "string", 50>>>>

\* read_source_schema(source)
read_source_schema(source) ==
    LET layers == get_source_layers(source)
    IN  [i \in 1..Len(layers) |-> <<layers[i].name, layer_schema(layers[i])>>]

\* ------------------------------------------------------------ source handles
\* A handle is what ogr.Open returned ("none" when it returned None) and who
\* still refers to it: "gen" the local of the open_source generator, "with"
\* the target of the with statement in the calling frame, "self" the
\* attribute self.source. The data source is closed by the binding when the
\* last reference to an opened handle goes.
Unopened == [status |-> "unopened", refs |-> {}, flushed |-> FALSE]

\* ogr.Open raised instead of returning
OpenRaised == [status |-> "raised", refs |-> {}, flushed |-> FALSE]

Released(h) == h.status = "open" /\ h.refs = {}

\* open_source up to the yield: source = ogr.Open(...); yield source
open_source_enter(ok) ==
    IF ok THEN [status |-> "open", refs |-> {"gen", "with"}, flushed |-> FALSE]
    ELSE [status |-> "none", refs |-> {}, flushed |-> FALSE]

\* the code after the yield raises: None has no FlushCache
exit_raises(h) == h.status = "none"

\* open_source after the yield, keeping the generator's reference
open_source_exit_keeping(h) ==
    IF exit_raises(h) THEN h ELSE [h EXCEPT !.flushed = TRUE]

\* open_source after the yield, the body having completed:
\* source.FlushCache(); source = None
open_source_exit(h) ==
    IF exit_raises(h) THEN h
    ELSE [h EXCEPT !.flushed = TRUE, !.refs = @ \ {"gen"}]

\* open_source when the body raised: the exception is thrown in at the yield,
\* nothing after it runs, and the generator's frame goes with its local.
open_source_throw(h) == [h EXCEPT !.refs = @ \ {"gen"}]

\* the calling function returns or raises: its frame goes with its locals
frame_exit(h) == [h EXCEPT !.refs = @ \ {"with"}]

\* the body of get_source: self.source = source
get_source_body(h) ==
    IF h.status = "open" THEN [h EXCEPT !.refs = @ \cup {"self"}] ELSE h

\* get_source(): the handle it leaves, with = what open_source yielded
get_source(ok) ==
    frame_exit(open_source_exit(get_source_body(open_source_enter(ok))))

\* ------------------------------------------------------------ layer copy
NoName == "None"

\* OSGEOLayer(layer, source).copy_to_source(source, overwrite, ..., name): the
\* layer is created in the destination, or replaces the one of that name when
\* overwrite is set; it fails on a destination that is not open and on an
\* existing layer that may not be overwritten.
copy_to_source(h, dst, target, overwrite) ==
    IF h.status # "open" \/ (target \in dst /\ ~overwrite)
    THEN [error |-> "CopyFailure", dst |-> dst, wrote |-> FALSE]
    ELSE [error |-> "none", dst |-> dst \cup {target}, wrote |-> TRUE]

\* layer_to_postgis(layername, connectionString, overwrite, ..., name) on a
\* manager whose self.source holds `source`; ok: ogr.Open(connectionString)
\* opened the destination `dst`.
layer_to_postgis(source, dst, layername, ok, overwrite, name) ==
    LET h      == open_source_enter(ok)
        target == IF name = NoName THEN layername ELSE name
        copied == copy_to_source(h, dst, target, overwrite)
    IN  IF ~GetLayerByName(source, layername)
        THEN \* assert layer
             [error |-> "AssertionError", dst |-> dst, wrote |-> FALSE,
              handle |-> frame_exit(open_source_throw(h))]
        ELSE IF copied.error # "none"
        THEN [error |-> copied.error, dst |-> copied.dst, wrote |-> copied.wrote,
              handle |-> frame_exit(open_source_throw(h))]
        ELSE \* return inside the with block: the generator is resumed
             [error |-> "none", dst |-> copied.dst, wrote |-> copied.wrote,
              handle |-> frame_exit(open_source_exit(h))]

\* ------------------------------------------------------------ backup
\* A path is the list of its components, the extension of a file standing as
\* the last one; None is the empty list.
None == <<>>
GivenDir == <<"given">>
\* get_new_dir(base_dir=DOWNLOADS_DIR_PATH): a new directory under the base
NewDir == <<"downloads", "new">>

\* os.path.join(dest_path, "backup_%s.gpkg" % time.strftime(...))
package_path(dest_path) == dest_path \o <<"backup_TIMESTAMP", ".gpkg">>

\* dest_path.endswith(".gpkg")
endswith_gpkg(path) == path # <<>> /\ path[Len(path)] = ".gpkg"

\* the test of backup_portal with `and` for `or`
dest_invalid_both(isdir, writable) == ~isdir /\ ~writable

\* not os.path.isdir(dest_path) or not os.access(dest_path, os.W_OK)
dest_invalid(isdir, writable) == ~isdir \/ ~writable

\* final_path set to the destination from the start
initial_final_path_dest(dest_path) == dest_path

\* final_path = None, the first statement of backup_portal
initial_final_path(dest_path) == None

\* the for loop of backup_portal over Layer.objects.all(): the table names of
\* the registered layers that source_layer_exists finds in ds
select_table_names(ds_layers, registered) ==
    SelectSeq(registered, LAMBDA table_name : source_layer_exists(ds_layers, table_name))

\* (table_name, gattr, style_name, get_sld_body(sld_url)) of a registered layer
style_row(table_name) == <<table_name, "the_geom", "default_style", "sld_body">>

select_layer_styles(ds_layers, registered) ==
    LET names == select_table_names(ds_layers, registered)
    IN  [i \in 1..Len(names) |-> style_row(names[i])]

NoArchive == [created |-> FALSE, layers |-> <<>>, style_table |-> FALSE, styles |-> <<>>]

\* postgis_as_gpkg(connectionString, dest_path, layernames) on the layers
\* `source` of the database; ok: ogr.Open opened it; n: the number of
\* CopyLayer calls that succeed before one raises.
postgis_as_gpkg(source, dest_path, layernames, ok, n) ==
    LET path   == IF ~endswith_gpkg(dest_path) THEN dest_path \o <<".gpkg">> ELSE dest_path
        h      == open_source_enter(ok)
        all    == get_source_layers(source)
        layers == IF layernames = <<>> THEN all
                  ELSE SelectSeq(all, LAMBDA layer : layer.name \in Range(layernames))
        done   == IF n < Len(layers) THEN n ELSE Len(layers)
        copied == [i \in 1..done |-> layers[i].name]
    IN  IF h.status # "open"
        THEN \* iterating None raises, after CreateDataSource
             [path |-> path, created |-> TRUE, layers |-> <<>>, error |-> "TypeError",
              handle |-> frame_exit(open_source_throw(h))]
        ELSE IF done < Len(layers)
        THEN [path |-> path, created |-> TRUE, layers |-> copied, error |-> "CopyFailure",
              handle |-> frame_exit(open_source_throw(h))]
        ELSE [path |-> path, created |-> TRUE, layers |-> copied, error |-> "none",
              handle |-> frame_exit(open_source_exit(h))]

\* StyleManager(package_dir): create_table(), then add_style(*style,
\* default=True) for the first n rows before one raises
add_styles(archive, layer_styles, n) ==
    LET done == IF n < Len(layer_styles) THEN n ELSE Len(layer_styles)
    IN  [archive EXCEPT !.style_table = TRUE,
                        !.styles = [i \in 1..done |->
                                       [row |-> layer_styles[i], default |-> TRUE]]]

VARIABLES
    layer1, layer2,     \* the full schemas of the two layers compared
    ignore_case,        \* the flag of the last compare_schema call
    compared,           \* compare_schema(layer1, layer2, ignore_case) has returned
    report,             \* what it returned
    swapped,            \* compare_schema(layer2, layer1, ignore_case) has returned
    report_swapped      \* what it returned

cvars == <<layer1, layer2, ignore_case, compared, report, swapped, report_swapped>>

VARIABLES
    pkgLayers,          \* the layers of the source at self.path
    dstLayers,          \* the names of the layers of the destination store
    mgr,                \* "none", "ready" (constructed) or "failed"
    self_source,        \* the handle kept as self.source
    dst_handle,         \* the handle layer_to_postgis opened last
    call,               \* the last call made on the manager
    exists_result,      \* what layer_exists returned
    layers_result,      \* what get_layers, get_layernames or read_schema returned
    copy_wrote,         \* the last layer_to_postgis wrote to the destination
    error               \* the exception the last call raised, or "none"

mvars == <<pkgLayers, dstLayers, mgr, self_source, dst_handle, call,
           exists_result, layers_result, copy_wrote, error>>

VARIABLES
    srcLayers,          \* the layers of the live database source
    catalog,            \* the table names of Layer.objects.all(), in its order
    pc,                 \* where backup_portal stands
    dest_path,          \* its local dest_path
    dest_isdir,         \* os.path.isdir(dest_path)
    dest_writable,      \* os.access(dest_path, os.W_OK)
    package_dir,        \* its local package_dir
    ds,                 \* the handle of its with statement
    pg,                 \* the handle postgis_as_gpkg opened
    table_names,        \* its local table_names
    layer_styles,       \* its local layer_styles
    archive,            \* the file at package_dir
    final_path,         \* its local final_path
    returned,           \* what it returned
    raised              \* the exception raised inside its try block, or "none"

bvars == <<srcLayers, catalog, pc, dest_path, dest_isdir, dest_writable, package_dir,
           ds, pg, table_names, layer_styles, archive, final_path, returned, raised>>

NoReport == [compatible |-> FALSE, deleted_fields |-> <<>>, new_fields |-> <<>>]
NoCall == [op |-> "none", arg |-> NoName]

vars == <<cvars, mvars, bvars>>

\* ------------------------------------------------------------ compare_schema
IdleCompare ==
    /\ layer1 = <<>>
    /\ layer2 = <<>>
    /\ ignore_case = FALSE
    /\ compared = FALSE
    /\ report = NoReport
    /\ swapped = FALSE
    /\ report_swapped = NoReport

IdleManager ==
    /\ pkgLayers = <<>>
    /\ dstLayers = {}
    /\ mgr = "none"
    /\ self_source = Unopened
    /\ dst_handle = Unopened
    /\ call = NoCall
    /\ exists_result = FALSE
    /\ layers_result = <<>>
    /\ copy_wrote = FALSE
    /\ error = "none"

IdleBackup ==
    /\ srcLayers = <<>>
    /\ catalog = <<>>
    /\ pc = "idle"
    /\ dest_path = None
    /\ dest_isdir = FALSE
    /\ dest_writable = FALSE
    /\ package_dir = None
    /\ ds = Unopened
    /\ pg = Unopened
    /\ table_names = <<>>
    /\ layer_styles = <<>>
    /\ archive = NoArchive
    /\ final_path = None
    /\ returned = None
    /\ raised = "none"

InitCompare ==
    /\ layer1 \in FullSchemas
    /\ layer2 \in FullSchemas
    /\ ignore_case = FALSE
    /\ compared = FALSE
    /\ report = NoReport
    /\ swapped = FALSE
    /\ report_swapped = NoReport
    /\ IdleManager
    /\ IdleBackup

CompareSchema ==
    /\ ~compared
    /\ \E ic \in BOOLEAN :
        /\ ignore_case' = ic
        /\ report' = compare_schema(layer1, layer2, ic)
    /\ compared' = TRUE
    /\ UNCHANGED <<layer1, layer2, swapped, report_swapped>>
    /\ UNCHANGED <<mvars, bvars>>

\* the same two layers compared the other way round, with the same flag
CompareSchemaSwapped ==
    /\ compared
    /\ ~swapped
    /\ report_swapped' = compare_schema(layer2, layer1, ignore_case)
    /\ swapped' = TRUE
    /\ UNCHANGED <<layer1, layer2, ignore_case, compared, report>>
    /\ UNCHANGED <<mvars, bvars>>

NextCompare ==
    \/ CompareSchema
    \/ CompareSchemaSwapped

SpecCompare == InitCompare /\ [][NextCompare]_vars

\* ------------------------------------------------------------ OSGEOManager
InitManager ==
    /\ pkgLayers \in Sources
    /\ dstLayers \in SUBSET (LayerNames \ {STYLES_TABLE})
    /\ mgr = "none"
    /\ self_source = Unopened
    /\ dst_handle = Unopened
    /\ call = NoCall
    /\ exists_result = FALSE
    /\ layers_result = <<>>
    /\ copy_wrote = FALSE
    /\ error = "none"
    /\ IdleCompare
    /\ IdleBackup

\* self.source can be read: the manager was constructed and the handle it
\* keeps is an opened one that is still referred to
SourceUsable == mgr = "ready" /\ self_source.status = "open" /\ ~Released(self_source)

\* OSGEOManager(package_path): self.path = package_path; self.get_source()
Construct ==
    /\ mgr = "none"
    /\ \E ok \in BOOLEAN :
        /\ self_source' = get_source(ok)
        /\ mgr' = IF exit_raises(open_source_enter(ok)) THEN "failed" ELSE "ready"
        /\ error' = IF exit_raises(open_source_enter(ok)) THEN "AttributeError" ELSE "none"
    /\ call' = [op |-> "__init__", arg |-> NoName]
    /\ UNCHANGED <<pkgLayers, dstLayers, dst_handle, exists_result, layers_result, copy_wrote>>
    /\ UNCHANGED <<cvars, bvars>>

\* layer_exists(layername)
LayerExists ==
    /\ SourceUsable
    /\ \E layername \in LayerNames :
        /\ call' = [op |-> "layer_exists", arg |-> layername]
        /\ exists_result' = source_layer_exists(pkgLayers, layername)
    /\ error' = "none"
    /\ UNCHANGED <<pkgLayers, dstLayers, mgr, self_source, dst_handle, layers_result, copy_wrote>>
    /\ UNCHANGED <<cvars, bvars>>

\* get_layers()
GetLayers ==
    /\ SourceUsable
    /\ call' = [op |-> "get_layers", arg |-> NoName]
    /\ layers_result' = get_source_layers(pkgLayers)
    /\ error' = "none"
    /\ UNCHANGED <<pkgLayers, dstLayers, mgr, self_source, dst_handle, exists_result, copy_wrote>>
    /\ UNCHANGED <<cvars, bvars>>

\* get_layernames()
GetLayernames ==
    /\ SourceUsable
    /\ call' = [op |-> "get_layernames", arg |-> NoName]
    /\ layers_result' = get_layernames(pkgLayers)
    /\ error' = "none"
    /\ UNCHANGED <<pkgLayers, dstLayers, mgr, self_source, dst_handle, exists_result, copy_wrote>>
    /\ UNCHANGED <<cvars, bvars>>

\* read_schema()
ReadSchema ==
    /\ SourceUsable
    /\ call' = [op |-> "read_schema", arg |-> NoName]
    /\ layers_result' = read_source_schema(pkgLayers)
    /\ error' = "none"
    /\ UNCHANGED <<pkgLayers, dstLayers, mgr, self_source, dst_handle, exists_result, copy_wrote>>
    /\ UNCHANGED <<cvars, bvars>>

\* layer_to_postgis(layername, connectionString, overwrite, name=name)
LayerToPostgis ==
    /\ SourceUsable
    /\ \E layername \in LayerNames, ok \in BOOLEAN, overwrite \in BOOLEAN,
          name \in {NoName, "roads"} :
        LET out == layer_to_postgis(pkgLayers, dstLayers, layername, ok, overwrite, name)
        IN  /\ call' = [op |-> "layer_to_postgis", arg |-> layername]
            /\ dstLayers' = out.dst
            /\ dst_handle' = out.handle
            /\ copy_wrote' = out.wrote
            /\ error' = out.error
    /\ UNCHANGED <<pkgLayers, mgr, self_source, exists_result, layers_result>>
    /\ UNCHANGED <<cvars, bvars>>

NextManager ==
    \/ Construct
    \/ LayerExists
    \/ GetLayers
    \/ GetLayernames
    \/ ReadSchema
    \/ LayerToPostgis

SpecManager == InitManager /\ [][NextManager]_vars

\* ------------------------------------------------------------ backup_portal
Init ==
    /\ srcLayers \in Sources
    /\ catalog \in DistinctSeqs(LayerNames, MaxCatalog)
    /\ pc = "idle"
    /\ dest_path = None
    /\ dest_isdir = FALSE
    /\ dest_writable = FALSE
    /\ package_dir = None
    /\ ds = Unopened
    /\ pg = Unopened
    /\ table_names = <<>>
    /\ layer_styles = <<>>
    /\ archive = NoArchive
    /\ final_path = None
    /\ returned = None
    /\ raised = "none"
    /\ IdleCompare
    /\ IdleManager

\* backup_portal(dest_path) up to the test of the destination: given tells
\* whether a dest_path was passed; isdir and writable are what the file
\* system answers for it (a directory get_new_dir made is both).
BackupStart ==
    /\ pc = "idle"
    /\ \E given \in BOOLEAN, isdir \in BOOLEAN, writable \in BOOLEAN :
        LET dest == IF given THEN GivenDir ELSE NewDir
        IN  /\ given \/ (isdir /\ writable)
            /\ final_path' = initial_final_path(dest)
            /\ dest_path' = dest
            /\ dest_isdir' = isdir
            /\ dest_writable' = writable
            /\ package_dir' = package_path(dest)
            /\ IF dest_invalid(isdir, writable)
               THEN raised' = "Exception" /\ pc' = "finally"
               ELSE raised' = "none" /\ pc' = "open"
    /\ UNCHANGED <<srcLayers, catalog, ds, pg, table_names, layer_styles, archive, returned>>
    /\ UNCHANGED <<cvars, mvars>>

\* with OSGEOManager.open_source(connection_string) as ds: if ds:
BackupOpen ==
    /\ pc = "open"
    /\ \/ \E ok \in BOOLEAN :
            /\ ds' = open_source_enter(ok)
            /\ pc' = IF ok THEN "select" ELSE "exit"
            /\ UNCHANGED raised
       \/ \* ogr.Open raises (ogr.UseExceptions() in force)
          /\ ds' = OpenRaised
          /\ raised' = "RuntimeError"
          /\ pc' = "finally"
    /\ UNCHANGED <<srcLayers, catalog, dest_path, dest_isdir, dest_writable, package_dir,
                   pg, table_names, layer_styles, archive, final_path, returned>>
    /\ UNCHANGED <<cvars, mvars>>

\* the loop over the registered layers; a catalog lookup may raise
BackupSelect ==
    /\ pc = "select"
    /\ \E lookup_fails \in BOOLEAN :
        IF lookup_fails
        THEN /\ raised' = "LookupError"
             /\ pc' = "throw"
             /\ UNCHANGED <<table_names, layer_styles>>
        ELSE /\ table_names' = select_table_names(srcLayers, catalog)
             /\ layer_styles' = select_layer_styles(srcLayers, catalog)
             /\ pc' = "copy"
             /\ UNCHANGED raised
    /\ UNCHANGED <<srcLayers, catalog, dest_path, dest_isdir, dest_writable, package_dir,
                   ds, pg, archive, final_path, returned>>
    /\ UNCHANGED <<cvars, mvars>>

\* OSGEOManager.postgis_as_gpkg(connection_string, package_dir, layernames=table_names)
BackupCopy ==
    /\ pc = "copy"
    /\ \E ok \in BOOLEAN, n \in 0..Len(srcLayers) :
        LET out == postgis_as_gpkg(srcLayers, package_dir, table_names, ok, n)
        IN  /\ archive' = [archive EXCEPT !.created = out.created, !.layers = out.layers]
            /\ pg' = out.handle
            /\ raised' = out.error
            /\ pc' = IF out.error = "none" THEN "style" ELSE "throw"
    /\ UNCHANGED <<srcLayers, catalog, dest_path, dest_isdir, dest_writable, package_dir,
                   ds, table_names, layer_styles, final_path, returned>>
    /\ UNCHANGED <<cvars, mvars>>

\* stm = StyleManager(package_dir); stm.create_table(); stm.add_style(...)
BackupStyle ==
    /\ pc = "style"
    /\ \E n \in 0..Len(layer_styles), insert_fails \in BOOLEAN :
        /\ insert_fails => n < Len(layer_styles)
        /\ ~insert_fails => n = Len(layer_styles)
        /\ archive' = add_styles(archive, layer_styles, n)
        /\ raised' = IF insert_fails THEN "StyleError" ELSE "none"
        /\ pc' = IF insert_fails THEN "throw" ELSE "exit"
    /\ UNCHANGED <<srcLayers, catalog, dest_path, dest_isdir, dest_writable, package_dir,
                   ds, pg, table_names, layer_styles, final_path, returned>>
    /\ UNCHANGED <<cvars, mvars>>

\* the with block ends: the generator runs on after its yield, then
\* final_path = dest_path
BackupExit ==
    /\ pc = "exit"
    /\ IF exit_raises(ds)
       THEN /\ raised' = "AttributeError"
            /\ UNCHANGED <<ds, final_path>>
       ELSE /\ ds' = open_source_exit(ds)
            /\ final_path' = dest_path
            /\ UNCHANGED raised
    /\ pc' = "finally"
    /\ UNCHANGED <<srcLayers, catalog, dest_path, dest_isdir, dest_writable, package_dir,
                   pg, table_names, layer_styles, archive, returned>>
    /\ UNCHANGED <<cvars, mvars>>

\* the body of the with block raised: the exception is thrown into the
\* generator and reaches except Exception, which logs it
BackupThrow ==
    /\ pc = "throw"
    /\ ds' = open_source_throw(ds)
    /\ pc' = "finally"
    /\ UNCHANGED <<srcLayers, catalog, dest_path, dest_isdir, dest_writable, package_dir,
                   pg, table_names, layer_styles, archive, final_path, returned, raised>>
    /\ UNCHANGED <<cvars, mvars>>

\* finally: return final_path
BackupReturn ==
    /\ pc = "finally"
    /\ returned' = final_path
    /\ ds' = frame_exit(ds)
    /\ pc' = "done"
    /\ UNCHANGED <<srcLayers, catalog, dest_path, dest_isdir, dest_writable, package_dir,
                   pg, table_names, layer_styles, archive, final_path, raised>>
    /\ UNCHANGED <<cvars, mvars>>

Next ==
    \/ BackupStart
    \/ BackupOpen
    \/ BackupSelect
    \/ BackupCopy
    \/ BackupStyle
    \/ BackupExit
    \/ BackupThrow
    \/ BackupReturn

Spec == Init /\ [][Next]_vars

\* ============================================================ properties

\* the layer_to_postgis call that ended last opened its destination
CopyScopeEnded == call.op = "layer_to_postgis" /\ dst_handle.status = "open"

BackupCompleted == pc = "done" /\ raised = "none"

\* C2: a backup_portal run that completes has copied into the archive exactly
\* the feature layers whose names are registered in the catalog and present in
\* the source, for every catalog and every source.
C2_ArchiveIsRegisteredAndPresent ==
    BackupCompleted =>
        Range(archive.layers) = (Range(catalog) \cap Range(srcLayers)) \ {STYLES_TABLE}

\* C3: when every step succeeds backup_portal returns the path of the archive
\* it created, <destination>/backup_<timestamp>.gpkg.
C3_ReturnsArchivePath ==
    BackupCompleted => returned = package_dir

\* the exceptions the steps from opening the live source to filling the style
\* table raise
StepErrors ==
    {"RuntimeError", "AttributeError", "LookupError", "TypeError", "CopyFailure", "StyleError"}

\* C4: an exception raised by a step from opening the live source to filling
\* the style table makes backup_portal return None, and a result other than
\* None is returned only when every one of these steps was done.
C4_StepErrorGivesNone ==
    pc = "done" =>
        /\ raised \in StepErrors => returned = None
        /\ returned # None =>
            /\ raised = "none"
            /\ ds.status = "open" /\ ds.flushed
            /\ table_names = select_table_names(srcLayers, catalog)
            /\ archive.created /\ archive.style_table
            /\ Len(archive.styles) = Len(layer_styles)

C4_Witness ==
    /\ pc = "done"
    /\ raised = "StyleError"
    /\ archive.created
    /\ archive.layers # <<>>
    /\ returned = None

\* C5: layer_exists(name) is true exactly when name is the name of a layer
\* the enumeration of the source lists, the reserved name included.
C5_ExistsIffListed ==
    call.op = "layer_exists" =>
        (exists_result <=> call.arg \in Range(get_layernames(pkgLayers)))

\* the rearrangements of a list
PermutationsOf(seq) ==
    {[i \in 1..Len(seq) |-> seq[f[i]]] : f \in Permutations(1..Len(seq))}

\* C6: the report of compare_schema is the same for every order of the fields
\* of either schema.
C6_OrderIndependent ==
    compared =>
        \A p1 \in PermutationsOf(layer1), p2 \in PermutationsOf(layer2) :
            compare_schema(p1, p2, ignore_case) = report

\* C7: layer_to_postgis with a layer name the source does not have fails with
\* LayerNotFoundError and writes nothing to the destination.
C7_UnknownLayerNotFoundError ==
    (call.op = "layer_to_postgis" /\ call.arg \notin Range(pkgLayers)) =>
        /\ error = "LayerNotFoundError"
        /\ ~copy_wrote

\* a destination was given that is not a directory or not writable
GivenDestInvalid ==
    pc # "idle" /\ dest_path = GivenDir /\ (~dest_isdir \/ ~dest_writable)

\* C8: with a given destination that is not a directory or not writable,
\* backup_portal returns None, never opens the live source and creates neither
\* an archive file nor a style table.
C8_InvalidDestCreatesNothing ==
    GivenDestInvalid =>
        /\ ds.status = "unopened"
        /\ pg.status = "unopened"
        /\ ~archive.created
        /\ ~archive.style_table
        /\ pc \in {"finally", "done"}
        /\ returned = None

C8_Witness ==
    /\ pc = "done"
    /\ dest_path = GivenDir
    /\ dest_isdir
    /\ ~dest_writable
    /\ returned = None

\* the names an enumeration returned, by the call that made it
ListedNames ==
    IF call.op = "get_layers" THEN [i \in 1..Len(layers_result) |-> layers_result[i].name]
    ELSE IF call.op = "read_schema" THEN [i \in 1..Len(layers_result) |-> layers_result[i][1]]
    ELSE layers_result

PositionIn(seq, x) == CHOOSE i \in 1..Len(seq) : seq[i] = x

\* C9: get_layers, get_layernames and read_schema never list a layer with the
\* reserved style-table name, and list every other layer of the source, once,
\* in the order of the source.
C9_StyleTableNeverListed ==
    call.op \in {"get_layers", "get_layernames", "read_schema"} =>
        /\ \A i \in 1..Len(ListedNames) : ListedNames[i] # STYLES_TABLE
        /\ Range(ListedNames) = Range(pkgLayers) \ {STYLES_TABLE}
        /\ \A i, j \in 1..Len(ListedNames) :
            i < j => PositionIn(pkgLayers, ListedNames[i]) < PositionIn(pkgLayers, ListedNames[j])

C9_Witness ==
    /\ call.op = "get_layers"
    /\ Len(pkgLayers) = 3
    /\ pkgLayers[2] = STYLES_TABLE
    /\ Len(layers_result) = 2

\* C10: comparing the same two layers the other way round gives the same
\* compatible, and its deleted_fields are the new_fields of the first call.
C10_SymmetryAndDuality ==
    swapped =>
        /\ report.compatible = report_swapped.compatible
        /\ report.new_fields = report_swapped.deleted_fields

C10_Witness ==
    /\ swapped
    /\ ignore_case
    /\ ~report.compatible
    /\ report.new_fields # <<>>
    /\ report.deleted_fields = <<>>

\* layer2 is layer1 with only the letter case of field names changed: the
\* same number of fields, and at each position the same name up to case, the
\* same type and the same width
CaseVariant ==
    /\ Len(layer1) = Len(layer2)
    /\ \A i \in 1..Len(layer1) :
        /\ lower(layer1[i][1]) = lower(layer2[i][1])
        /\ layer1[i][2] = layer2[i][2]
        /\ layer1[i][3] = layer2[i][3]

\* C11 (as stated): for a schema and a case variant of it, compare_schema with
\* ignore_case reports compatible with no new and no deleted field, and
\* without ignore_case reports incompatible whenever some name differs in case.
C11_CaseVariantsAsStated ==
    (compared /\ CaseVariant) =>
        /\ ignore_case =>
            /\ report.compatible
            /\ report.new_fields = <<>>
            /\ report.deleted_fields = <<>>
        /\ (~ignore_case /\ layer1 # layer2) => ~report.compatible

\* C11 (amended): with ignore_case the case variant is reported compatible
\* with no new and no deleted field; without ignore_case it is reported
\* incompatible whenever it is not a mere reordering of the fields of the
\* first schema, and compatible when it is one.
C11_CaseVariants ==
    (compared /\ CaseVariant) =>
        /\ ignore_case =>
            /\ report.compatible
            /\ report.new_fields = <<>>
            /\ report.deleted_fields = <<>>
        /\ ~ignore_case =>
            (report.compatible <=> layer2 \in PermutationsOf(layer1))

C11_Witness ==
    /\ compared
    /\ ignore_case
    /\ layer1 = <<<<STR_id, "int", 10>>, <<STR_name, "string", 50>>>>
    /\ layer2 = <<<<STR_ID, "int", 10>>, <<STR_name, "string", 50>>>>
    /\ report.compatible
    /\ report.new_fields = <<>>
    /\ report.deleted_fields = <<>>
====
